---- MODULE Spec2Model ----
(***************************************************************************)
(* Combinatorial markets: the welfare-maximizing allocation (ILP and brute *)
(* force), competitive-equilibrium pricing (linear and quadratic), and     *)
(* elicitation with pruning (EAP) over noisy bidders.                      *)
(***************************************************************************)
EXTENDS Integers, Sequences, FiniteSets, TLC

(***************************************************************************)
(* Bounds of the model.                                                    *)
(***************************************************************************)
NumGoods == 2
NumBidders == 2
MaxValue == 2

VARIABLES
    self_goods,         \* Market._goods
    bidders,            \* Market._bidders: bidder id -> bidder object
    empirical,          \* NoisyBidder._current_empirical_values, per bidder id
    vars_maps,          \* Market._bidder_bundle_vars, __bidders_vars, __goods_vars
    welfare_result,     \* what welfare_max_program last returned
    brute_result,       \* what brute_force_welfare_max_solver last returned
    bound_result,       \* what welfare_upper_bound last returned
    pricing_allocation, \* the allocation that the caller asks prices for
    pricing_result,     \* what pricing returned, per pricing shape asked
    pc,                 \* where the call of elicit_with_pruning stands
    t,                  \* the loop index of elicit_with_pruning
    active_consumer_bundle_pair,  \* NoisyMarket._active_consumer_bundle_pair
    sampling_schedule,  \* argument of elicit_with_pruning
    delta_schedule,     \* argument: 1/delta of each iteration
    target_epsilon,     \* argument of elicit_with_pruning
    hat_epsilon,        \* the epsilon the last call of elicit returned
    result,             \* the result dictionary of elicit_with_pruning
    error,              \* the exception that ended the call, if any
    within_epsilon,     \* history: every average so far within its epsilon
    elicit_calls,       \* history: how many times elicit has sampled
    bidder,             \* a bidder object on its own, its attributes set or None
    last_call           \* the last call made on an object on its own and how it ended

market_vars == <<self_goods, bidders, empirical, vars_maps>>
solver_vars == <<welfare_result, brute_result, bound_result, pricing_allocation,
                 pricing_result>>
eap_vars == <<pc, t, active_consumer_bundle_pair, sampling_schedule,
              delta_schedule, target_epsilon, hat_epsilon, result, error,
              within_epsilon, elicit_calls>>
bidder_vars == <<bidder, last_call>>
vars == <<market_vars, solver_vars, eap_vars, bidder_vars>>

(***************************************************************************)
(* Generic helpers.                                                        *)
(***************************************************************************)
\* Python's None is the empty sequence, a value x is <<x>>.
None == <<>>
Some(x) == <<x>>
IsNone(o) == Len(o) = 0
Get(o) == o[1]

\* The record of a call: what it was given and what it returned or raised.
Call(op, args, returned, raised, before) ==
    [op |-> op, args |-> args, returned |-> returned, raised |-> raised,
     before |-> before]

RECURSIVE SumOver(_, _)
SumOver(f, S) ==
    IF S = {} THEN 0
    ELSE LET x == CHOOSE y \in S : TRUE
         IN  f[x] + SumOver(f, S \ {x})

MaxOf(S) == CHOOSE x \in S : \A y \in S : y <= x
MinOf(S) == CHOOSE x \in S : \A y \in S : x <= y
Range(f) == {f[x] : x \in DOMAIN f}
Abs(x) == IF x < 0 THEN -x ELSE x

Min2(a, b) == IF a <= b THEN a ELSE b

RECURSIVE SortedSeq(_)
SortedSeq(S) ==
    IF S = {} THEN <<>>
    ELSE LET m == MinOf(S) IN <<m>> \o SortedSeq(S \ {m})

(***************************************************************************)
(* Goods, bundles and bidders.                                             *)
(***************************************************************************)
Goods == 0 .. (NumGoods - 1)

GetSetOfAllBundles(n) == SUBSET (0 .. (n - 1))

Bundles == GetSetOfAllBundles(NumGoods)

NoMap == [x \in {} |-> 0]

Additive(values) ==
    [kind |-> "Additive", values |-> values, budget |-> 0,
     preferred_bundle |-> {}, value |-> 0, map_base_bundles_to_values |-> NoMap]

AdditiveWithBudget(values, budget) ==
    [kind |-> "AdditiveWithBudget", values |-> values, budget |-> budget,
     preferred_bundle |-> {}, value |-> 0, map_base_bundles_to_values |-> NoMap]

SingleMinded(preferred_bundle, value) ==
    [kind |-> "SingleMinded", values |-> NoMap, budget |-> 0,
     preferred_bundle |-> preferred_bundle, value |-> value,
     map_base_bundles_to_values |-> NoMap]

NoisyBidder(map_base_bundles_to_values) ==
    [kind |-> "NoisyBidder", values |-> NoMap, budget |-> 0,
     preferred_bundle |-> {}, value |-> 0,
     map_base_bundles_to_values |-> map_base_bundles_to_values]

\* ConstantValueBidder of market_tests.py: a Bidder that keeps the set of base
\* bundles it was constructed with and values a bundle by its size.
ConstantValueBidder(base_bundles) ==
    [kind |-> "ConstantValueBidder", base_bundles |-> base_bundles]

\* Bidder.get_base_bundles of bidder object b.
GetBaseBundles(b) ==
    CASE b.kind = "ConstantValueBidder" -> b.base_bundles
      [] b.kind = "Additive" -> GetSetOfAllBundles(Cardinality(DOMAIN b.values))
      [] b.kind = "AdditiveWithBudget" -> GetSetOfAllBundles(Cardinality(DOMAIN b.values))
      [] b.kind = "SingleMinded" -> {b.preferred_bundle}
      [] OTHER -> DOMAIN b.map_base_bundles_to_values

AdditiveValueQuery(b, bundle) == SumOver(b.values, bundle)

\* The value query of a single-minded bidder that pays for the preferred
\* bundle only, not for the bundles that contain it.
SingleMindedValueQueryExact(b, bundle) ==
    IF b.preferred_bundle = bundle THEN b.value ELSE 0

\* The value query of an additive-with-budget bidder with the budget left out.
AWBValueQueryNoBudget(b, bundle) == SumOver(b.values, bundle)

\* AdditiveWithBudget.value_query: the additive value, capped by the budget.
AWBValueQuery(b, bundle) == Min2(AdditiveValueQuery(b, bundle), b.budget)

SingleMindedValueQuery(b, bundle) ==
    IF b.preferred_bundle \subseteq bundle THEN b.value ELSE 0

\* NoisyBidder.value_query: the current empirical average.
NoisyValueQuery(i, bundle) == Get(empirical[i][bundle].avg)

\* bidder.value_query(bundle) of the bidder with id i.
ValueQuery(i, bundle) ==
    LET b == bidders[i] IN
    CASE b.kind = "ConstantValueBidder" -> Cardinality(bundle) * (i + 1)
      [] b.kind = "Additive" -> AdditiveValueQuery(b, bundle)
      [] b.kind = "AdditiveWithBudget" -> AWBValueQuery(b, bundle)
      [] b.kind = "SingleMinded" -> SingleMindedValueQuery(b, bundle)
      [] OTHER -> NoisyValueQuery(i, bundle)

BidderIds == DOMAIN bidders

\* Sum of value_query over the entries of an allocation (bidder id -> bundle).
AllocationWelfare(allocation) ==
    SumOver([i \in DOMAIN allocation |-> ValueQuery(i, allocation[i])],
            DOMAIN allocation)

(***************************************************************************)
(* The welfare-maximizing integer program.                                 *)
(***************************************************************************)
\* Market.generate_vars_maps: one 0/1 variable per (bidder, base bundle).
GenerateVarsMaps ==
    LET bidder_bundle_vars ==
            UNION {{<<i, bundle>> : bundle \in GetBaseBundles(bidders[i])}
                   : i \in BidderIds}
        with_vars == {v[1] : v \in bidder_bundle_vars}
        in_vars == UNION {v[2] : v \in bidder_bundle_vars}
    IN  [bidder_bundle_vars |-> bidder_bundle_vars,
         bidders_vars |-> [i \in with_vars |->
                              {v \in bidder_bundle_vars : v[1] = i}],
         goods_vars |-> [g \in in_vars |->
                              {v \in bidder_bundle_vars : g \in v[2]}]]

\* The three maps rebuilt from the bidders at every call.
VarsMapsRebuilt == GenerateVarsMaps

\* The three maps after a call of generate_vars_maps: built on the first call.
VarsMapsAfter == IF IsNone(vars_maps) THEN GenerateVarsMaps ELSE Get(vars_maps)

LE == "<="
EQ == "=="

\* WelfareMaxModel without the goods constraints.
WelfareMaxModelNoGoods(maps) ==
    [objective |-> [v \in maps.bidder_bundle_vars |-> ValueQuery(v[1], v[2])],
     variables |-> maps.bidder_bundle_vars,
     solution |-> {},
     constraints |->
        [name \in {<<"Bidder", i>> : i \in DOMAIN maps.bidders_vars} |->
            [vars |-> maps.bidders_vars[name[2]], sense |-> LE, rhs |-> 1]]]

\* WelfareMaxModel without the bidders constraints.
WelfareMaxModelNoBidders(maps) ==
    [objective |-> [v \in maps.bidder_bundle_vars |-> ValueQuery(v[1], v[2])],
     variables |-> maps.bidder_bundle_vars,
     solution |-> {},
     constraints |->
        [name \in {<<"Good", g>> : g \in DOMAIN maps.goods_vars} |->
            [vars |-> maps.goods_vars[name[2]], sense |-> LE, rhs |-> 1]]]

\* The pulp model welfare_max_program builds from the maps.
WelfareMaxModel(maps) ==
    [objective |-> [v \in maps.bidder_bundle_vars |-> ValueQuery(v[1], v[2])],
     variables |-> maps.bidder_bundle_vars,
     solution |-> {},
     constraints |->
        [name \in ({<<"Good", g>> : g \in DOMAIN maps.goods_vars}
                   \cup {<<"Bidder", i>> : i \in DOMAIN maps.bidders_vars}) |->
            IF name[1] = "Good"
            THEN [vars |-> maps.goods_vars[name[2]], sense |-> LE, rhs |-> 1]
            ELSE [vars |-> maps.bidders_vars[name[2]], sense |-> LE, rhs |-> 1]]]

\* A 0/1 assignment, given as the set X of variables at 1, meets the
\* constraints of the given sense.
MeetsConstraints(X, constraints, sense) ==
    \A name \in DOMAIN constraints :
        LET c == constraints[name] IN
        c.sense = sense =>
            IF sense = LE THEN Cardinality(X \cap c.vars) <= c.rhs
                          ELSE Cardinality(X \cap c.vars) = c.rhs

\* All assignments that meet the <= constraints. The constraints have
\* non-negative coefficients, so every subset of such an assignment is one.
RECURSIVE LeFeasible(_, _)
LeFeasible(V, constraints) ==
    IF V = {} THEN {{}}
    ELSE LET v == CHOOSE x \in V : TRUE
             rest == LeFeasible(V \ {v}, constraints)
         IN  rest \cup {X \cup {v} : X \in
                          {Y \in rest : MeetsConstraints(Y \cup {v}, constraints, LE)}}

FeasibleSet(model) ==
    {X \in LeFeasible(model.variables, model.constraints) :
        MeetsConstraints(X, model.constraints, EQ)}

ObjectiveValue(model, X) == SumOver(model.objective, X)

\* model.solve: the optimal assignments of a feasible maximization model.
OptimalAssignments(model) ==
    LET F == FeasibleSet(model) IN
    {X \in F : \A Y \in F : ObjectiveValue(model, Y) <= ObjectiveValue(model, X)}

\* The allocation read off the variables that are 1.
ExtractAllocation(X) ==
    [i \in {v[1] : v \in X} |->
        CHOOSE bundle \in {v[2] : v \in X} : <<i, bundle>> \in X]

\* The (bidder, base bundle) pairs of the bidders as they are now.
BidderBundlePairs ==
    UNION {{<<i, bundle>> : bundle \in GetBaseBundles(bidders[i])} : i \in BidderIds}

\* The result dictionary of welfare_max_program when the solver returns X:
\* the allocation is read for the base bundles the bidders have now.
WelfareMaxResult(model, X) ==
    [optimal_allocation |-> ExtractAllocation(X \cap BidderBundlePairs),
     status |-> "Optimal",
     optimal_welfare |-> ObjectiveValue(model, X),
     model |-> [model EXCEPT !.solution = X]]

generate_vars_maps ==
    /\ vars_maps' = Some(VarsMapsAfter)
    /\ UNCHANGED <<self_goods, bidders, empirical, solver_vars, eap_vars, bidder_vars>>

\* Reading the allocation looks up the variable of every base bundle the
\* bidders have now: a pair without a variable raises KeyError, after the
\* maps were stored and the model was solved.
welfare_max_program ==
    /\ vars_maps' = Some(VarsMapsAfter)
    /\ IF BidderBundlePairs \subseteq VarsMapsAfter.bidder_bundle_vars
       THEN /\ LET model == WelfareMaxModel(VarsMapsAfter) IN
               \E X \in OptimalAssignments(model) :
                   welfare_result' = Some(WelfareMaxResult(model, X))
            /\ UNCHANGED last_call
       ELSE /\ last_call' = Some(Call("welfare_max_program", <<>>, None,
                                      Some("KeyError"), <<>>))
            /\ UNCHANGED welfare_result
    /\ UNCHANGED <<self_goods, bidders, empirical, brute_result, bound_result,
                   pricing_allocation, pricing_result,
                   eap_vars, bidder>>

(***************************************************************************)
(* The greedy welfare upper bound.                                         *)
(***************************************************************************)
\* max([...], default=0) of the values of the base bundles of bidder i that
\* do not intersect allocated_bundle.
BestDisjointValue(i, allocated_bundle) ==
    LET candidates == {ValueQuery(i, bundle) : bundle \in
                          {b \in GetBaseBundles(bidders[i]) :
                              b \cap allocated_bundle = {}}}
    IN  IF candidates = {} THEN 0 ELSE MaxOf(candidates)

\* Market.welfare_upper_bound(allocated_bidder, allocated_bundle).
WelfareUpperBound(allocated_bidder, allocated_bundle) ==
    ValueQuery(allocated_bidder, allocated_bundle)
    + SumOver([i \in BidderIds \ {allocated_bidder} |->
                  BestDisjointValue(i, allocated_bundle)],
              BidderIds \ {allocated_bidder})

(***************************************************************************)
(* The brute-force solver.                                                 *)
(***************************************************************************)
\* it.combinations(s, r) as a sequence, s a sequence of goods.
RECURSIVE Combinations(_, _)
Combinations(s, r) ==
    IF r = 0 THEN <<{}>>
    ELSE IF Len(s) < r THEN <<>>
    ELSE LET with_head == Combinations(Tail(s), r - 1)
         IN  [k \in 1 .. Len(with_head) |-> {Head(s)} \cup with_head[k]]
             \o Combinations(Tail(s), r)

RECURSIVE ChainCombinations(_, _)
ChainCombinations(s, r) ==
    IF r > Len(s) THEN <<>>
    ELSE Combinations(s, r) \o ChainCombinations(s, r + 1)

\* The bundles of the goods without the empty one.
AvailableBundlesNonEmpty(goods) == ChainCombinations(SortedSeq(goods), 1)

\* available_bundles: every bundle of the goods, by size and then in order.
AvailableBundles(goods) == ChainCombinations(SortedSeq(goods), 0)

\* One node of the search tree. The leaf returns the dictionary it was
\* given: the new_allocation of the node above, which that node goes on
\* writing to.
RECURSIVE BruteForceHelper(_, _, _, _, _), BruteForceLoop(_, _, _, _, _, _, _, _)
BruteForceHelper(bs, goods, allocation, max_welfare, argmax_allocation) ==
    IF Len(bs) = 0
    THEN [w |-> AllocationWelfare(allocation), a |-> Some(allocation)]
    ELSE LET available_bundles == AvailableBundles(goods)
             r == BruteForceLoop(bs, goods, allocation, available_bundles, 1,
                                 max_welfare, argmax_allocation, FALSE)
             last == available_bundles[Len(available_bundles)]
         IN  IF Len(bs) = 1 /\ r.updated
             THEN [w |-> r.w, a |-> Some((bs[1] :> last) @@ allocation)]
             ELSE [w |-> r.w, a |-> r.a]

BruteForceLoop(bs, goods, allocation, available_bundles, k, max_welfare, argmax_allocation, updated) ==
    IF k > Len(available_bundles)
    THEN [w |-> max_welfare, a |-> argmax_allocation, updated |-> updated]
    ELSE LET current_bundle == available_bundles[k]
             new_allocation == (bs[1] :> current_bundle) @@ allocation
             new_goods == goods \ current_bundle
             r == BruteForceHelper(Tail(bs), new_goods, new_allocation,
                                   max_welfare, argmax_allocation)
         IN  IF r.w >= max_welfare
             THEN BruteForceLoop(bs, goods, allocation, available_bundles,
                                 k + 1, r.w, r.a, TRUE)
             ELSE BruteForceLoop(bs, goods, allocation, available_bundles,
                                 k + 1, max_welfare, argmax_allocation, updated)

\* Market.brute_force_welfare_max_solver: (welfare, allocation).
BruteForceWelfareMaxSolver ==
    LET r == BruteForceHelper(SortedSeq(BidderIds), self_goods, NoMap, 0, None)
    IN  [welfare |-> r.w, allocation |-> r.a]

brute_force_welfare_max_solver ==
    /\ brute_result' = Some(BruteForceWelfareMaxSolver)
    /\ UNCHANGED <<market_vars, welfare_result, bound_result,
                   pricing_allocation, pricing_result,
                   eap_vars, bidder_vars>>

welfare_upper_bound ==
    /\ \E i \in BidderIds : \E bundle \in Bundles :
           bound_result' = Some([allocated_bidder |-> i,
                                 allocated_bundle |-> bundle,
                                 value |-> WelfareUpperBound(i, bundle)])
    /\ UNCHANGED <<market_vars, welfare_result, brute_result,
                   pricing_allocation, pricing_result,
                   eap_vars, bidder_vars>>

(***************************************************************************)
(* Markets of additive, additive-with-budget and single-minded bidders.    *)
(***************************************************************************)
Values == 1 .. MaxValue

BidderObjects ==
    {Additive(v) : v \in [Goods -> Values]}
    \cup {AdditiveWithBudget(x[1], x[2]) : x \in [Goods -> Values] \X Values}
    \cup {SingleMinded(x[1], x[2]) : x \in (Bundles \ {{}}) \X Values}

\* No call of elicit_with_pruning is under way.
NoCall ==
    /\ pc = "idle"
    /\ t = 0
    /\ active_consumer_bundle_pair = {}
    /\ sampling_schedule = <<>>
    /\ delta_schedule = <<>>
    /\ target_epsilon = 0
    /\ hat_epsilon = None
    /\ result = NoMap
    /\ error = None
    /\ within_epsilon = TRUE
    /\ elicit_calls = 0

\* No bidder object is handled on its own, and no call was made on one.
NoBidderCall ==
    /\ bidder = None
    /\ last_call = None

Markets == UNION {[0 .. (n - 1) -> BidderObjects] : n \in 0 .. NumBidders}

InitWelfare ==
    /\ self_goods = Goods
    /\ bidders \in Markets
    /\ empirical = NoMap
    /\ vars_maps = None
    /\ welfare_result = None
    /\ brute_result = None
    /\ bound_result = None
    /\ pricing_allocation = NoMap
    /\ pricing_result = NoMap
    /\ NoCall
    /\ NoBidderCall

NextWelfare ==
    \/ welfare_max_program
    \/ brute_force_welfare_max_solver
    \/ welfare_upper_bound

SpecWelfare == InitWelfare /\ [][NextWelfare]_vars

\* Markets of additive bidders whose good values, given to set_values, may
\* be negative: such a bidder values a bundle below one of its parts.
SignedValues == {-1, 1, 2}

SignedMarkets ==
    UNION {[0 .. (n - 1) -> {Additive(v) : v \in [Goods -> SignedValues]}]
             : n \in 0 .. NumBidders}

InitSigned ==
    /\ self_goods = Goods
    /\ bidders \in SignedMarkets
    /\ empirical = NoMap
    /\ vars_maps = None
    /\ welfare_result = None
    /\ brute_result = None
    /\ bound_result = None
    /\ pricing_allocation = NoMap
    /\ pricing_result = NoMap
    /\ NoCall
    /\ NoBidderCall

NextSigned ==
    \/ welfare_max_program
    \/ brute_force_welfare_max_solver

SpecSigned == InitSigned /\ [][NextSigned]_vars

\* Degenerate markets: no bidders, or no goods.  The bidders are the same
\* objects as in any other market; Market.__init__ takes the two sets as
\* they are given.
InitDegenerate ==
    /\ self_goods \in SUBSET Goods
    /\ bidders \in Markets
    /\ self_goods = {} \/ BidderIds = {}
    /\ empirical = NoMap
    /\ vars_maps = None
    /\ welfare_result = None
    /\ brute_result = None
    /\ bound_result = None
    /\ pricing_allocation = NoMap
    /\ pricing_result = NoMap
    /\ NoCall
    /\ NoBidderCall

NextDegenerate ==
    \/ welfare_max_program
    \/ brute_force_welfare_max_solver

SpecDegenerate == InitDegenerate /\ [][NextDegenerate]_vars

(***************************************************************************)
(* Competitive-equilibrium pricing.  A price variable is named by the      *)
(* goods it prices: {g} is the price of good g, {g, h} the price of the    *)
(* pair.  A linear expression is a map from the price variables to their   *)
(* coefficients; a constraint [coef, rhs] reads  sum coef[v] * v <= rhs.   *)
(***************************************************************************)
LinearPrices == {{g} : g \in self_goods}

QuadraPrices == {{g, h} : g, h \in self_goods} \ LinearPrices

PriceVars(quadratic) ==
    IF quadratic THEN LinearPrices \cup QuadraPrices ELSE LinearPrices

\* The bundle prices with the per-good terms left out of the quadratic shape.
GetBundlePricesPairsOnly(quadratic) ==
    [bundle \in GetSetOfAllBundles(Cardinality(self_goods)) |->
        [v \in PriceVars(quadratic) |->
            IF v \subseteq bundle /\ (quadratic => v \in QuadraPrices) THEN 1 ELSE 0]]

\* Market.get_bundle_prices: map_bundle_to_price, the price of each bundle as
\* the sum of the prices of its goods and, if quadratic, of its pairs.
GetBundlePrices(quadratic) ==
    [bundle \in GetSetOfAllBundles(Cardinality(self_goods)) |->
        [v \in PriceVars(quadratic) |-> IF v \subseteq bundle THEN 1 ELSE 0]]

\* The price 0.0 of a bidder that is not in the allocation.
ZeroPrice(quadratic) == [v \in PriceVars(quadratic) |-> 0]

\* lpSum of the expressions es[k], k \in S.
LpSum(es, S, quadratic) ==
    [v \in PriceVars(quadratic) |-> SumOver([k \in S |-> es[k][v]], S)]

\* Market.__enumerate_all_allocations_helper: the list of the allocations
\* that extend allocation over the bidders bs with the goods that remain.
RECURSIVE EnumerateAllAllocationsHelper(_, _, _), EnumerateAllAllocationsLoop(_, _, _, _, _)
EnumerateAllAllocationsHelper(goods, bs, allocation) ==
    IF Len(bs) = 0 THEN <<allocation>>
    ELSE EnumerateAllAllocationsLoop(goods, bs, allocation, AvailableBundles(goods), 1)

EnumerateAllAllocationsLoop(goods, bs, allocation, available_bundles, k) ==
    IF k > Len(available_bundles) THEN <<>>
    ELSE LET current_bundle == available_bundles[k]
             new_allocation == (bs[1] :> current_bundle) @@ allocation
             new_goods == goods \ current_bundle
         IN  EnumerateAllAllocationsHelper(new_goods, Tail(bs), new_allocation)
             \o EnumerateAllAllocationsLoop(goods, bs, allocation,
                                            available_bundles, k + 1)

\* Market.enumerate_all_allocations.
EnumerateAllAllocations ==
    EnumerateAllAllocationsHelper(self_goods, SortedSeq(BidderIds), NoMap)

\* The utility-maximization constraints, written only for the bidders that
\* are in the allocation.
UtilityConstraintsAllocatedOnly(i, allocation, map_bundle_to_price, quadratic) ==
    IF i \notin DOMAIN allocation THEN {}
    ELSE {[coef |-> [v \in PriceVars(quadratic) |->
                        map_bundle_to_price[allocation[i]][v] - map_bundle_to_price[bundle][v]],
           rhs |-> ValueQuery(i, allocation[i]) - ValueQuery(i, bundle)]
             : bundle \in GetSetOfAllBundles(Cardinality(self_goods))}

\* (1) The utility-maximization constraints of a bidder:
\*     value_of_bundle - price_of_bundle
\*         <= value_for_allocated_bundle - price_for_allocated_bundle.
UtilityConstraints(i, allocation, map_bundle_to_price, quadratic) ==
    LET value_for_allocated_bundle ==
            IF i \in DOMAIN allocation THEN ValueQuery(i, allocation[i]) ELSE 0
        price_for_allocated_bundle ==
            IF i \in DOMAIN allocation THEN map_bundle_to_price[allocation[i]]
            ELSE ZeroPrice(quadratic)
    IN  {[coef |-> [v \in PriceVars(quadratic) |->
                       price_for_allocated_bundle[v] - map_bundle_to_price[bundle][v]],
          rhs |-> value_for_allocated_bundle - ValueQuery(i, bundle)]
            : bundle \in GetSetOfAllBundles(Cardinality(self_goods))}

\* The revenue constraint turned around: revenue <= the other revenue.
RevenueConstraintReversed(revenue, other, quadratic) ==
    [coef |-> [v \in PriceVars(quadratic) |-> revenue[v] - other[v]], rhs |-> 0]

\* revenue >= the revenue of one other allocation, as other - revenue <= 0.
RevenueConstraint(revenue, other, quadratic) ==
    [coef |-> [v \in PriceVars(quadratic) |-> other[v] - revenue[v]], rhs |-> 0]

\* (2) The revenue-maximization constraints:
\*     revenue >= the revenue of each of enumerate_all_allocations().
RevenueConstraints(allocation, map_bundle_to_price, quadratic) ==
    UNION {{RevenueConstraint(revenue, other, quadratic)
               : other \in {LpSum([i \in DOMAIN a |-> map_bundle_to_price[a[i]]],
                                  DOMAIN a, quadratic)
                              : a \in Range(EnumerateAllAllocations)}}
             : revenue \in {LpSum([i \in DOMAIN allocation |->
                                      map_bundle_to_price[allocation[i]]],
                                  DOMAIN allocation, quadratic)}}

\* lowBound=0.0 of every price variable.
LowBounds(quadratic) ==
    {[coef |-> [v \in PriceVars(quadratic) |-> IF v = w THEN -1 ELSE 0], rhs |-> 0]
        : w \in PriceVars(quadratic)}

\* The pricing problem with the revenue constraints left out.
PricingModelNoRevenue(allocation, quadratic) ==
    LET map_bundle_to_price == GetBundlePrices(quadratic)
    IN  [variables |-> PriceVars(quadratic),
         constraints |->
             UNION {UtilityConstraints(i, allocation, map_bundle_to_price, quadratic)
                       : i \in BidderIds}
             \cup LowBounds(quadratic)]

\* The pulp problem 'Pricing_Problem' that Market.pricing builds.
PricingModel(allocation, quadratic) ==
    LET map_bundle_to_price == GetBundlePrices(quadratic)
    IN  [variables |-> PriceVars(quadratic),
         constraints |->
             UNION {UtilityConstraints(i, allocation, map_bundle_to_price, quadratic)
                       : i \in BidderIds}
             \cup RevenueConstraints(allocation, map_bundle_to_price, quadratic)
             \cup LowBounds(quadratic)]

\* p and n bound variable v from above and from below: their combination
\* that does not mention v.
Combine(p, n, v) ==
    [coef |-> [w \in DOMAIN p.coef |->
                  (0 - n.coef[v]) * p.coef[w] + p.coef[v] * n.coef[w]],
     rhs |-> (0 - n.coef[v]) * p.rhs + p.coef[v] * n.rhs]

RECURSIVE Gcd(_, _)
Gcd(a, b) == IF b = 0 THEN a ELSE Gcd(b, a % b)

\* The greatest common divisor of the coefficients of a constraint.
RECURSIVE CoefGcd(_, _)
CoefGcd(coef, S) ==
    IF S = {} THEN 0
    ELSE LET v == CHOOSE w \in S : TRUE
         IN  Gcd(Abs(coef[v]), CoefGcd(coef, S \ {v}))

\* The same half-space with coefficients and right-hand side in lowest terms.
Normalize(c) ==
    LET g == Gcd(CoefGcd(c.coef, DOMAIN c.coef), Abs(c.rhs))
    IN  IF g <= 1 THEN c
        ELSE [coef |-> [w \in DOMAIN c.coef |-> c.coef[w] \div g], rhs |-> c.rhs \div g]

\* c bounds nothing: 0 <= rhs with rhs >= 0.
Trivial(c) == c.rhs >= 0 /\ \A w \in DOMAIN c.coef : c.coef[w] = 0

\* d is the same half-space as c moved inwards.
Tighter(d, c) ==
    \E k \in {CoefGcd(c.coef, DOMAIN c.coef)} : \E m \in {CoefGcd(d.coef, DOMAIN d.coef)} :
        /\ k > 0
        /\ m > 0
        /\ \A w \in DOMAIN c.coef : d.coef[w] * k = c.coef[w] * m
        /\ d.rhs * k < c.rhs * m

\* The constraints in lowest terms, without those that another one implies.
Reduce(constraints) ==
    LET cs == {Normalize(c) : c \in {d \in constraints : ~Trivial(d)}}
    IN  {c \in cs : \A d \in cs : ~Tighter(d, c)}

\* model.solve for a linear program with no objective: whether the
\* constraints have a real solution, by eliminating the variables one by one.
RECURSIVE LpFeasibleReduced(_, _)
LpFeasibleReduced(cs, variables) ==
    IF \E c \in cs : c.rhs < 0 /\ \A w \in DOMAIN c.coef : c.coef[w] = 0 THEN FALSE
    ELSE IF variables = {} THEN TRUE
    ELSE \E v \in {CHOOSE w \in variables : \A x \in variables :
                       Cardinality({c \in cs : c.coef[w] > 0}) * Cardinality({c \in cs : c.coef[w] < 0})
                       <= Cardinality({c \in cs : c.coef[x] > 0}) * Cardinality({c \in cs : c.coef[x] < 0})} :
         \E upper \in {{c \in cs : c.coef[v] > 0}} :
         \E lower \in {{c \in cs : c.coef[v] < 0}} :
             LpFeasibleReduced(
                 Reduce({c \in cs : c.coef[v] = 0}
                        \cup {Combine(p, n, v) : p \in upper, n \in lower}),
                 variables \ {v})

LpFeasible(constraints, variables) == LpFeasibleReduced(Reduce(constraints), variables)

\* pulp.LpStatus[model.status] after the solve.
LpStatus(model) ==
    IF LpFeasible(model.constraints, model.variables) THEN "Optimal" ELSE "Infeasible"

\* Market.pricing(allocation, quadratic): the status of the result.
Pricing(allocation, quadratic) ==
    [status |-> LpStatus(PricingModel(allocation, quadratic))]

\* The allocations pricing is called with: some of the bidders, each with a
\* bundle, no good in two bundles.
Allocations ==
    {a \in UNION {[D -> Bundles] : D \in SUBSET BidderIds} :
        \A i, j \in DOMAIN a : i # j => a[i] \cap a[j] = {}}

\* A call of pricing for the allocation, with one of the pricing shapes.
pricing ==
    /\ pc = "idle"
    /\ \E quadratic \in BOOLEAN \ DOMAIN pricing_result :
          pricing_result' =
              (quadratic :> Pricing(pricing_allocation, quadratic)) @@ pricing_result
    /\ UNCHANGED <<market_vars, welfare_result, brute_result, bound_result,
                   pricing_allocation, eap_vars, bidder_vars>>

InitPricing ==
    /\ self_goods = Goods
    /\ bidders \in Markets
    /\ empirical = NoMap
    /\ vars_maps = None
    /\ welfare_result = None
    /\ brute_result = None
    /\ bound_result = None
    /\ pricing_allocation \in Allocations
    /\ pricing_result = NoMap
    /\ NoCall
    /\ NoBidderCall

NextPricing == pricing

SpecPricing == InitPricing /\ [][NextPricing]_vars

(***************************************************************************)
(* The markets of the tests: three goods, with the four single-minded      *)
(* bidders of test_non_existence_sm_example or the two additive-with-      *)
(* budget bidders of test_awb_examples.                                    *)
(***************************************************************************)
ExampleGoods == {0, 1, 2}

\* The preferred bundles of bidders 0 .. 3.
ExamplePreferredBundles == <<{0, 1}, {0, 2}, {2, 1}, {0, 1, 2}>>

\* The single-minded market with value values[i + 1] for bidder i.
SingleMindedExample(values) ==
    [i \in 0 .. 3 |-> SingleMinded(ExamplePreferredBundles[i + 1], values[i + 1])]

\* The values the single-minded bidders are given: 3 for bidders 0, 1 and 2,
\* and 3, 4 or 5 for bidder 3.
ExampleValues == {<<3, 3, 3, value>> : value \in {3, 4, 5}}

\* awb_bidder_0 and awb_bidder_1, with the budgets of the test or others.
AWBExample(budgets) ==
    (0 :> AdditiveWithBudget((0 :> 1) @@ (1 :> 4) @@ (2 :> 5), budgets[1]))
    @@ (1 :> AdditiveWithBudget((0 :> 3) @@ (1 :> 10) @@ (2 :> 1), budgets[2]))

ExampleBudgets == [1 .. 2 -> {5, 7}]

ExampleMarkets ==
    {SingleMindedExample(values) : values \in ExampleValues}
    \cup {AWBExample(budgets) : budgets \in ExampleBudgets}

\* The allocations welfare_max_program can return for the market.
WelfareMaxAllocations ==
    {ExtractAllocation(X) : X \in OptimalAssignments(WelfareMaxModel(GenerateVarsMaps))}

\* A market of the tests; the caller prices an allocation that
\* welfare_max_program returns for it.
InitExamples ==
    /\ self_goods = ExampleGoods
    /\ bidders \in ExampleMarkets
    /\ empirical = NoMap
    /\ vars_maps = None
    /\ welfare_result = None
    /\ brute_result = None
    /\ bound_result = None
    /\ pricing_allocation \in WelfareMaxAllocations
    /\ pricing_result = NoMap
    /\ NoCall
    /\ NoBidderCall

NextExamples ==
    \/ welfare_max_program
    \/ brute_force_welfare_max_solver
    \/ pricing

SpecExamples == InitExamples /\ [][NextExamples]_vars

(***************************************************************************)
(* The noisy market and elicitation with pruning.                          *)
(* Values, noise and epsilon are fixed-point numbers, in 1/Unit.           *)
(***************************************************************************)
Unit == 10 * 10

\* Bounds of the noisy markets.
MaxTrueValue == 1
MaxBaseBundles == 2
MaxPairs == 2
MaxRounds == 3

\* get_noise_generator: uniform noise on [a, b], of range c = b - a.
NoiseA == -Unit
NoiseB == Unit
NoiseC == NoiseB - NoiseA

\* The averages of the noise draws the model considers.
NoiseAverages == {NoiseA, 0, NoiseB}

TrueValues == {v * 10 * Unit : v \in 0 .. MaxTrueValue}

SampleCounts == {4, 400}
DeltaInverses == {4}
TargetEpsilons == {0, 5, 11}

\* floor(100 * ln(m)) for m = 1 .. 64.
LnTable ==
    <<0, 69, 109, 138, 160, 179, 194, 207, 219, 230, 239, 248, 256, 263, 270,
      277, 283, 289, 294, 299, 304, 309, 313, 317, 321, 325, 329, 333, 336,
      340, 343, 346, 349, 352, 355, 358, 361, 363, 366, 368, 371, 373, 376,
      378, 380, 382, 385, 387, 389, 391, 393, 395, 397, 398, 400, 402, 404,
      406, 407, 409, 411, 412, 414, 415>>

\* math.log(m) in 1/Unit, m a positive integer.
RECURSIVE LnFixed(_)
LnFixed(m) == IF m <= Len(LnTable) THEN LnTable[m] ELSE LnFixed(m \div 2) + LnTable[2]

\* math.sqrt, rounded down.
ISqrt(x) == CHOOSE r \in 0 .. x : r * r <= x /\ (r + 1) * (r + 1) > x

\* The Hoeffding radius of elicit: c * sqrt(log(2 * k / delta) / (2 * n)),
\* with delta = 1 / delta_inv and k active pairs.
HoeffdingEpsilon(k, delta_inv, number_of_samples, c) ==
    ISqrt((c * c * LnFixed(2 * k * delta_inv)) \div (2 * number_of_samples * Unit))

\* math.log raises ValueError on 0.
LogRaises(k, delta_inv) == 2 * k * delta_inv <= 0

NoStatistics == [avg |-> None, eps |-> None, n |-> 0]

\* NoisyBidder.__init__: every base bundle starts at (None, None, 0).
InitialEmpirical(bs) ==
    [i \in DOMAIN bs |->
        [bundle \in GetBaseBundles(bs[i]) |-> NoStatistics]]

\* An active set that starts with one base bundle of each bidder only.
AllBasePairsOnePerBidder ==
    {<<i, CHOOSE bundle \in GetBaseBundles(bidders[i]) : TRUE>> :
        i \in {j \in BidderIds : GetBaseBundles(bidders[j]) # {}}}

\* NoisyMarket.__init__: every (bidder, base bundle) pair is active.
AllBasePairs ==
    UNION {{<<i, bundle>> : bundle \in GetBaseBundles(bidders[i])} : i \in BidderIds}

TrueValue(pair) == bidders[pair[1]].map_base_bundles_to_values[pair[2]]

\* elicit that also clears the record of every pair that is not active.
ElicitEmpiricalClearsOthers(noise, epsilon, number_of_samples) ==
    [i \in DOMAIN empirical |->
        [bundle \in DOMAIN empirical[i] |->
            IF <<i, bundle>> \in active_consumer_bundle_pair
            THEN [avg |-> Some(TrueValue(<<i, bundle>>) + noise[<<i, bundle>>]),
                  eps |-> Some(epsilon),
                  n |-> number_of_samples]
            ELSE NoStatistics]]

\* NoisyBidder.sample_value_query on every active pair: the record of an
\* active pair becomes (base value + noise average, epsilon, n).
ElicitEmpirical(noise, epsilon, number_of_samples) ==
    [i \in DOMAIN empirical |->
        [bundle \in DOMAIN empirical[i] |->
            IF <<i, bundle>> \in active_consumer_bundle_pair
            THEN [avg |-> Some(TrueValue(<<i, bundle>>) + noise[<<i, bundle>>]),
                  eps |-> Some(epsilon),
                  n |-> number_of_samples]
            ELSE empirical[i][bundle]]]

Raise(exception) ==
    /\ pc' = "raised"
    /\ error' = Some(exception)

\* The assert with the comparison of the lengths left out.
ScheduleAssertNoLengths == target_epsilon > 0

\* assert len(sampling_schedule) == len(delta_schedule) and target_epsilon > 0
ScheduleAssert ==
    Len(sampling_schedule) = Len(delta_schedule) /\ target_epsilon > 0

\* The assert at the head of elicit_with_pruning, and the entry of the loop.
\* A loop over empty schedules falls through: the function returns None.
elicit_with_pruning_begin ==
    /\ pc = "call"
    /\ IF ScheduleAssert
       THEN /\ pc' = IF Len(sampling_schedule) = 0 THEN "returned_none" ELSE "iterate"
            /\ error' = error
       ELSE Raise("AssertionError")
    /\ UNCHANGED <<market_vars, solver_vars, t, active_consumer_bundle_pair,
                   sampling_schedule, delta_schedule, target_epsilon,
                   hat_epsilon, result, within_epsilon, elicit_calls, bidder_vars>>

\* The terminating conditions of an iteration.
Terminates(epsilon, k, iteration) ==
    \/ epsilon <= target_epsilon
    \/ k = 0
    \/ iteration = Len(sampling_schedule) - 1

\* One iteration up to the check of the terminating conditions: elicit, then
\* return the result or go on to prune.
elicit_round ==
    /\ pc = "iterate"
    /\ LET number_of_samples == sampling_schedule[t + 1]
           delta_inv == delta_schedule[t + 1]
           k == Cardinality(active_consumer_bundle_pair)
       IN  IF LogRaises(k, delta_inv)
           THEN /\ Raise("ValueError")
                /\ UNCHANGED <<empirical, hat_epsilon, within_epsilon,
                               elicit_calls, result>>
           ELSE \E epsilon \in {HoeffdingEpsilon(k, delta_inv, number_of_samples, NoiseC)} :
                    \E noise \in [active_consumer_bundle_pair -> NoiseAverages] :
                       /\ empirical' = ElicitEmpirical(noise, epsilon, number_of_samples)
                       /\ hat_epsilon' = Some(epsilon)
                       /\ within_epsilon' =
                              (within_epsilon /\ \A p \in active_consumer_bundle_pair :
                                                   Abs(noise[p]) <= epsilon)
                       /\ elicit_calls' = elicit_calls + 1
                       /\ IF Terminates(epsilon, k, t)
                          THEN /\ pc' = "returned"
                               /\ result' = [result EXCEPT
                                               !.total_num_iterations = Some(t + 1),
                                               !.actual_eps = Some(epsilon)]
                          ELSE /\ pc' = "prune"
                               /\ result' = result
                       /\ error' = error
    /\ UNCHANGED <<self_goods, bidders, vars_maps, solver_vars, t,
                   active_consumer_bundle_pair, sampling_schedule, delta_schedule,
                   target_epsilon, bidder_vars>>

\* The count of bidders taken over the bidders that still have active pairs.
PrunableActiveBidders(sub_i_market_opt_welfare, epsilon, opt_welfare) ==
    sub_i_market_opt_welfare
    + 2 * epsilon * Cardinality({p[1] : p \in active_consumer_bundle_pair})
        < opt_welfare

\* The test of prune with no slack term.
PrunableNoSlack(sub_i_market_opt_welfare, epsilon, opt_welfare) ==
    sub_i_market_opt_welfare < opt_welfare

\* The test of prune: bound + 2 * epsilon * len(bidders) < opt_welfare.
Prunable(sub_i_market_opt_welfare, epsilon, opt_welfare) ==
    sub_i_market_opt_welfare + 2 * epsilon * Cardinality(BidderIds) < opt_welfare

InitialAssignment == <<"initial_assignment", 0>>

\* The model with a constraint 'initial_assignment' that is there left as it
\* is, and v == 1 added only if there is none.
WithInitialAssignmentKept(model, v) ==
    IF InitialAssignment \in DOMAIN model.constraints
    THEN model
    ELSE [model EXCEPT !.constraints =
            (InitialAssignment :> [vars |-> {v}, sense |-> EQ, rhs |-> 1]) @@ @]

\* The model with the constraint 'initial_assignment' replaced by v == 1.
WithInitialAssignment(model, v) ==
    LET kept == [name \in DOMAIN model.constraints \ {InitialAssignment} |->
                    model.constraints[name]]
    IN  [model EXCEPT !.constraints =
            (InitialAssignment :> [vars |-> {v}, sense |-> EQ, rhs |-> 1]) @@ kept]

\* NoisyMarket.heuristic_upper_bound: the bound, and the welfare program
\* after the call (the ILP branch changes and re-solves its model).
HeuristicUpperBound(noisy_bidder, bundle, welfare_program, ilp) ==
    IF ilp
    THEN LET model == WithInitialAssignment(welfare_program.model,
                                            <<noisy_bidder, bundle>>)
             X == CHOOSE Y \in OptimalAssignments(model) : TRUE
         IN  [value |-> ObjectiveValue(model, X),
              welfare_program |->
                  [welfare_program EXCEPT !.model = [model EXCEPT !.solution = X]]]
    ELSE [value |-> WelfareUpperBound(noisy_bidder, bundle),
          welfare_program |-> welfare_program]

\* NoisyMarket.prune over candidates[k ..], given what the loop has so far.
RECURSIVE PruneFrom(_, _, _, _, _, _, _)
PruneFrom(candidates, k, epsilon, welfare_program, ilp, prune_set, un_pruned) ==
    IF k > Len(candidates)
    THEN [prune_set |-> prune_set, un_pruned |-> un_pruned,
          welfare_program |-> welfare_program]
    ELSE LET pair == candidates[k]
             h == HeuristicUpperBound(pair[1], pair[2], welfare_program, ilp)
             opt_welfare == welfare_program.optimal_welfare
         IN  IF Prunable(h.value, epsilon, opt_welfare)
             THEN PruneFrom(candidates, k + 1, epsilon, h.welfare_program, ilp,
                            prune_set \cup {pair}, un_pruned)
             ELSE PruneFrom(candidates, k + 1, epsilon, h.welfare_program, ilp,
                            prune_set,
                            Append(un_pruned,
                                   <<pair[1], pair[2],
                                     h.value + 2 * epsilon * Cardinality(BidderIds)>>))

Prune(candidates, epsilon, welfare_program, ilp) ==
    PruneFrom(candidates, 1, epsilon, welfare_program, ilp, {}, <<>>)

\* A set as a list, in some order.
RECURSIVE SetToSeq(_)
SetToSeq(S) ==
    IF S = {} THEN <<>>
    ELSE LET x == CHOOSE y \in S : TRUE IN <<x>> \o SetToSeq(S \ {x})

\* sorted(un_pruned, key=lambda x: x[2]): a stable sort by the third entry.
RECURSIVE InsertByKey(_, _)
InsertByKey(sorted, x) ==
    IF Len(sorted) = 0 THEN <<x>>
    ELSE IF sorted[Len(sorted)][3] <= x[3] THEN Append(sorted, x)
    ELSE Append(InsertByKey(SubSeq(sorted, 1, Len(sorted) - 1), x), sorted[Len(sorted)])

RECURSIVE SortedByKey(_)
SortedByKey(s) ==
    IF Len(s) = 0 THEN <<>>
    ELSE InsertByKey(SortedByKey(SubSeq(s, 1, Len(s) - 1)), s[Len(s)])

SecondPassBudget == 180

\* The candidates of the second pass: the pairs the first pass left, by
\* their bound, cut to int(180 / (t + 1)).
SecondPassCandidates(un_pruned, iteration) ==
    LET ranked == SortedByKey(un_pruned)
        top == Min2(Len(ranked), SecondPassBudget \div (iteration + 1))
    IN  [k \in 1 .. top |-> <<ranked[k][1], ranked[k][2]>>]

\* The active set recomputed from all base pairs.
\* The active set left as it was, with the pruned pairs still in it.
ActiveAfterPruneKeepsPruned(active, prune_set) == active

ActiveAfterPruneFromAll(active, prune_set) == AllBasePairs \ prune_set

\* self._active_consumer_bundle_pair - prune_set.
ActiveAfterPrune(active, prune_set) == active \ prune_set

\* The assert of value_query left out.
ValueQueryAssertsNever(pair) == FALSE

\* value_query asserts that the empirical average is not None.
ValueQueryAsserts(pair) == IsNone(empirical[pair[1]][pair[2]].avg)

\* The rest of an iteration: the welfare program under the current
\* estimates, the two pruning passes, the new active set and the record of
\* the iteration.
prune_round ==
    /\ pc = "prune"
    /\ IF \E pair \in VarsMapsAfter.bidder_bundle_vars : ValueQueryAsserts(pair)
       THEN /\ Raise("AssertionError")
            /\ UNCHANGED <<vars_maps, welfare_result, t,
                           active_consumer_bundle_pair, result>>
       ELSE LET model == WelfareMaxModel(VarsMapsAfter) IN
            \E X \in OptimalAssignments(model) :
               LET welfare_program == WelfareMaxResult(model, X)
                   epsilon == Get(hat_epsilon)
                   first == Prune(SetToSeq(active_consumer_bundle_pair), epsilon,
                                  welfare_program, FALSE)
                   second == Prune(SecondPassCandidates(first.un_pruned, t), epsilon,
                                   first.welfare_program, TRUE)
                   prune_set == first.prune_set \cup second.prune_set
                   new_active == ActiveAfterPrune(active_consumer_bundle_pair, prune_set)
               IN  /\ vars_maps' = Some(VarsMapsAfter)
                   /\ welfare_result' = Some(second.welfare_program)
                   /\ active_consumer_bundle_pair' = new_active
                   /\ result' = [result EXCEPT !.rounds =
                                    (t :> [active_consumer_bundle_pair |-> new_active,
                                           prune_set |-> prune_set]) @@ @]
                   /\ t' = t + 1
                   /\ pc' = "iterate"
                   /\ error' = error
    /\ UNCHANGED <<self_goods, bidders, empirical, brute_result, bound_result,
                   pricing_allocation, pricing_result,
                   sampling_schedule, delta_schedule, target_epsilon, hat_epsilon,
                   within_epsilon, elicit_calls, bidder_vars>>

\* The base-value maps of a noisy bidder: up to MaxBaseBundles non-empty bundles.
BaseValueMaps ==
    UNION {[D -> TrueValues] :
             D \in {E \in SUBSET (Bundles \ {{}}) : Cardinality(E) <= MaxBaseBundles}}

NoisyMarkets ==
    {m \in UNION {[0 .. (n - 1) -> {NoisyBidder(v) : v \in BaseValueMaps}]
                   : n \in 0 .. NumBidders} :
        SumOver([i \in DOMAIN m |-> Cardinality(DOMAIN m[i].map_base_bundles_to_values)],
                DOMAIN m) <= MaxPairs}

Schedules(S) == UNION {[1 .. n -> S] : n \in 0 .. MaxRounds}

\* A noisy market as constructed, and a call of elicit_with_pruning on it.
Init ==
    /\ self_goods = Goods
    /\ bidders \in NoisyMarkets
    /\ empirical = InitialEmpirical(bidders)
    /\ vars_maps = None
    /\ welfare_result = None
    /\ brute_result = None
    /\ bound_result = None
    /\ pricing_allocation = NoMap
    /\ pricing_result = NoMap
    /\ pc = "call"
    /\ t = 0
    /\ active_consumer_bundle_pair = AllBasePairs
    /\ sampling_schedule \in Schedules(SampleCounts)
    /\ delta_schedule \in Schedules(DeltaInverses)
    /\ target_epsilon \in TargetEpsilons
    /\ hat_epsilon = None
    /\ result = [rounds |-> NoMap, total_num_iterations |-> None, actual_eps |-> None]
    /\ error = None
    /\ within_epsilon = TRUE
    /\ elicit_calls = 0
    /\ NoBidderCall

Next ==
    \/ elicit_with_pruning_begin
    \/ elicit_round
    \/ prune_round

Spec == Init /\ [][Next]_vars

(***************************************************************************)
(* Calls on one noisy bidder: sample_value_query and value_query, with     *)
(* any bundle of the goods.  last_call records the call, what it returned  *)
(* or raised, and the records of the bidder before the call.               *)
(***************************************************************************)
\* The assert of sample_value_query with every bundle let through.
SampleValueQueryAssertsNever(i, bundle) == FALSE

\* sample_value_query asserts that the bundle is a key of the base values.
SampleValueQueryAsserts(i, bundle) ==
    bundle \notin DOMAIN bidders[i].map_base_bundles_to_values

\* The epsilons a caller passes along with number_of_samples.
SampleEpsilons(number_of_samples) ==
    {HoeffdingEpsilon(1, delta_inv, number_of_samples, NoiseC) : delta_inv \in DeltaInverses}

\* NoisyBidder.sample_value_query(bundle, number_of_samples, epsilon).
sample_value_query ==
    \E i \in BidderIds : \E bundle \in Bundles :
    \E number_of_samples \in SampleCounts :
    \E epsilon \in SampleEpsilons(number_of_samples) :
    \E noise \in NoiseAverages :
        /\ IF SampleValueQueryAsserts(i, bundle)
           THEN /\ last_call' = Some(Call("sample_value_query", <<i, bundle>>, None,
                                          Some("AssertionError"), empirical[i]))
                /\ UNCHANGED empirical
           ELSE IF bundle \notin DOMAIN bidders[i].map_base_bundles_to_values
           THEN /\ last_call' = Some(Call("sample_value_query", <<i, bundle>>, None,
                                          Some("KeyError"), empirical[i]))
                /\ UNCHANGED empirical
           ELSE /\ empirical' =
                       [empirical EXCEPT ![i] =
                           (bundle :> [avg |-> Some(TrueValue(<<i, bundle>>) + noise),
                                       eps |-> Some(epsilon),
                                       n |-> number_of_samples]) @@ @]
                /\ last_call' = Some(Call("sample_value_query", <<i, bundle>>, None,
                                          None, empirical[i]))
        /\ UNCHANGED <<self_goods, bidders, vars_maps, solver_vars, eap_vars, bidder>>

\* NoisyBidder.value_query(bundle).
value_query ==
    \E i \in BidderIds : \E bundle \in Bundles :
        /\ IF bundle \notin DOMAIN empirical[i]
           THEN last_call' = Some(Call("value_query", <<i, bundle>>, None,
                                       Some("KeyError"), empirical[i]))
           ELSE IF ValueQueryAsserts(<<i, bundle>>)
           THEN last_call' = Some(Call("value_query", <<i, bundle>>, None,
                                       Some("AssertionError"), empirical[i]))
           ELSE last_call' = Some(Call("value_query", <<i, bundle>>,
                                       empirical[i][bundle].avg, None, empirical[i]))
        /\ UNCHANGED <<market_vars, solver_vars, eap_vars, bidder>>

\* One noisy bidder as constructed.
InitNoisyBidder ==
    /\ self_goods = Goods
    /\ bidders \in {m \in NoisyMarkets : DOMAIN m = {0}}
    /\ empirical = InitialEmpirical(bidders)
    /\ vars_maps = None
    /\ welfare_result = None
    /\ brute_result = None
    /\ bound_result = None
    /\ pricing_allocation = NoMap
    /\ pricing_result = NoMap
    /\ NoCall
    /\ NoBidderCall

NextNoisyBidder ==
    \/ sample_value_query
    \/ value_query

SpecNoisyBidder == InitNoisyBidder /\ [][NextNoisyBidder]_vars

(***************************************************************************)
(* A market whose bidders change after the maps were built: the caller     *)
(* adds a bundle to, or discards one from, the set of base bundles a       *)
(* ConstantValueBidder was constructed with (the bidder keeps that set, not *)
(* a copy), and sets the value of a single-minded bidder again.            *)
(***************************************************************************)
MapsBundles == {{0}, {1}}

MapsBidderObjects ==
    {ConstantValueBidder(base_bundles) : base_bundles \in SUBSET MapsBundles}
    \cup {SingleMinded(x[1], x[2]) : x \in MapsBundles \X Values}

MapsMarkets == UNION {[0 .. (n - 1) -> MapsBidderObjects] : n \in 0 .. NumBidders}

change_base_bundles ==
    /\ \E i \in BidderIds : \E bundle \in MapsBundles :
           /\ bidders[i].kind = "ConstantValueBidder"
           /\ bidders' = [bidders EXCEPT ![i].base_bundles =
                             IF bundle \in @ THEN @ \ {bundle} ELSE @ \cup {bundle}]
    /\ UNCHANGED <<self_goods, empirical, vars_maps, solver_vars, eap_vars, bidder_vars>>

\* SingleMinded.set_value(value, safe_check=False) of a bidder of the market.
set_value_unchecked ==
    /\ \E i \in BidderIds : \E value \in Values :
           /\ bidders[i].kind = "SingleMinded"
           /\ bidders' = [bidders EXCEPT ![i].value = value]
    /\ UNCHANGED <<self_goods, empirical, vars_maps, solver_vars, eap_vars, bidder_vars>>

InitMaps ==
    /\ self_goods = Goods
    /\ bidders \in MapsMarkets
    /\ empirical = NoMap
    /\ vars_maps = None
    /\ welfare_result = None
    /\ brute_result = None
    /\ bound_result = None
    /\ pricing_allocation = NoMap
    /\ pricing_result = NoMap
    /\ NoCall
    /\ NoBidderCall

NextMaps ==
    \/ generate_vars_maps
    \/ welfare_max_program
    \/ change_base_bundles
    \/ set_value_unchecked

SpecMaps == InitMaps /\ [][NextMaps]_vars

(***************************************************************************)
(* Calls of Market.enumerate_all_allocations, on markets of up to three    *)
(* goods and three bidders as in test_enumerate_all_allocations.           *)
(***************************************************************************)
enumerate_all_allocations ==
    /\ last_call' = Some(Call("enumerate_all_allocations", <<>>,
                              Some(EnumerateAllAllocations), None, <<>>))
    /\ UNCHANGED <<market_vars, solver_vars, eap_vars, bidder>>

\* The bidders of the enumerated markets: the enumeration reads their
\* number only.
EnumeratedMarkets ==
    UNION {[0 .. (n - 1) -> {SingleMinded({0}, value) : value \in Values}]
             : n \in 0 .. Cardinality(ExampleGoods)}

InitEnumerate ==
    /\ self_goods \in SUBSET ExampleGoods
    /\ bidders \in EnumeratedMarkets
    /\ empirical = NoMap
    /\ vars_maps = None
    /\ welfare_result = None
    /\ brute_result = None
    /\ bound_result = None
    /\ pricing_allocation = NoMap
    /\ pricing_result = NoMap
    /\ NoCall
    /\ NoBidderCall

NextEnumerate == enumerate_all_allocations

SpecEnumerate == InitEnumerate /\ [][NextEnumerate]_vars

(***************************************************************************)
(* Calls of NoisyMarket.prune on a market whose pairs have all been        *)
(* sampled: the welfare program under the current estimates, then prune    *)
(* with any list of candidates, fast (ilp false) or exact (ilp true).      *)
(***************************************************************************)
\* The empirical averages of the sampled market, and the epsilons.
PruneAverages == {-1 * Unit, 0, 3 * Unit}
PruneEpsilons == {Unit \div 10, Unit}

\* The records of a market after elicit(number_of_samples, ...) with epsilon.
SampledEmpirical(bs, epsilon, number_of_samples) ==
    {e \in [DOMAIN bs -> UNION {[D -> {[avg |-> Some(a), eps |-> Some(epsilon),
                                       n |-> number_of_samples] : a \in PruneAverages}]
                                  : D \in {GetBaseBundles(bs[i]) : i \in DOMAIN bs}}] :
        \A i \in DOMAIN bs : DOMAIN e[i] = GetBaseBundles(bs[i])}

\* The lists of candidate pairs: lists of distinct base pairs.
CandidateLists ==
    {c \in UNION {[1 .. n -> AllBasePairs] : n \in 0 .. MaxPairs} :
        \A j, k \in DOMAIN c : j # k => c[j] # c[k]}

\* NoisyMarket.prune(candidates, hat_epsilon, welfare_program, ilp): the
\* call returns (prune_set, un_pruned); the exact pass leaves its last
\* forcing constraint and solution in the model of welfare_program.
prune ==
    /\ ~IsNone(welfare_result)
    /\ \E candidates \in CandidateLists : \E ilp \in BOOLEAN :
       \E r \in {Prune(candidates, Get(hat_epsilon), Get(welfare_result), ilp)} :
           /\ last_call' = Some(Call("prune", <<candidates, Get(hat_epsilon), ilp>>,
                                     Some([prune_set |-> r.prune_set,
                                           un_pruned |-> r.un_pruned]),
                                     None, Get(welfare_result)))
           /\ welfare_result' = Some(r.welfare_program)
    /\ UNCHANGED <<market_vars, brute_result, bound_result, pricing_allocation,
                   pricing_result, eap_vars, bidder>>

\* A noisy market after one round of sampling.  prune reads the empirical
\* averages only, so the hidden base values are all taken as 0.
InitPrune ==
    /\ self_goods = Goods
    /\ bidders \in {m \in NoisyMarkets :
                      \A i \in DOMAIN m : \A bundle \in GetBaseBundles(m[i]) :
                          m[i].map_base_bundles_to_values[bundle] = 0}
    /\ hat_epsilon \in {Some(epsilon) : epsilon \in PruneEpsilons}
    /\ empirical \in SampledEmpirical(bidders, Get(hat_epsilon), MinOf(SampleCounts))
    /\ vars_maps = None
    /\ welfare_result = None
    /\ brute_result = None
    /\ bound_result = None
    /\ pricing_allocation = NoMap
    /\ pricing_result = NoMap
    /\ pc = "idle"
    /\ t = 0
    /\ active_consumer_bundle_pair = AllBasePairs
    /\ sampling_schedule = <<>>
    /\ delta_schedule = <<>>
    /\ target_epsilon = 0
    /\ result = NoMap
    /\ error = None
    /\ within_epsilon = TRUE
    /\ elicit_calls = 0
    /\ NoBidderCall

NextPrune ==
    \/ welfare_max_program
    \/ prune

SpecPrune == InitPrune /\ [][NextPrune]_vars

(***************************************************************************)
(* One Additive, AdditiveWithBudget or SingleMinded object and the calls   *)
(* of its setters and of SingleMinded.value_query.  An attribute is None   *)
(* or Some(x), as in the constructors with random_init=False.              *)
(***************************************************************************)
BidderObject(kind, values, budget, preferred_bundle, value) ==
    [kind |-> kind, values |-> values, budget |-> budget,
     preferred_bundle |-> preferred_bundle, value |-> value]

\* The objects the constructors return, with random_init True or False.
ConstructedBidders ==
    {BidderObject("Additive", values, None, None, None)
        : values \in {None} \cup {Some(v) : v \in [Goods -> Values]}}
    \cup {BidderObject("AdditiveWithBudget", None, None, None, None)}
    \cup {BidderObject("AdditiveWithBudget", Some(x[1]), Some(x[2]), None, None)
            : x \in [Goods -> Values] \X Values}
    \cup {BidderObject("SingleMinded", None, None, None, None)}
    \cup {BidderObject("SingleMinded", None, None, Some(x[1]), Some(x[2]))
            : x \in (Bundles \ {{}}) \X Values}

\* The check of the setters with every attribute taken as not yet set.
AlreadySetNever(attribute) == FALSE

\* The check of the setters: attribute is not None.
AlreadySet(attribute) == ~IsNone(attribute)

\* Additive.set_values(values), inherited by AdditiveWithBudget.
set_values ==
    /\ ~IsNone(bidder)
    /\ Get(bidder).kind \in {"Additive", "AdditiveWithBudget"}
    /\ \E values \in [Goods -> Values] :
           IF AlreadySet(Get(bidder).values)
           THEN /\ last_call' = Some(Call("set_values", <<values>>, None,
                                          Some("Exception"), Get(bidder)))
                /\ UNCHANGED bidder
           ELSE /\ bidder' = Some([Get(bidder) EXCEPT !.values = Some(values)])
                /\ last_call' = Some(Call("set_values", <<values>>, None, None,
                                          Get(bidder)))
    /\ UNCHANGED <<market_vars, solver_vars, eap_vars>>

\* AdditiveWithBudget.set_budget(budget).
set_budget ==
    /\ ~IsNone(bidder)
    /\ Get(bidder).kind = "AdditiveWithBudget"
    /\ \E budget \in Values :
           IF AlreadySet(Get(bidder).budget)
           THEN /\ last_call' = Some(Call("set_budget", <<budget>>, None,
                                          Some("Exception"), Get(bidder)))
                /\ UNCHANGED bidder
           ELSE /\ bidder' = Some([Get(bidder) EXCEPT !.budget = Some(budget)])
                /\ last_call' = Some(Call("set_budget", <<budget>>, None, None,
                                          Get(bidder)))
    /\ UNCHANGED <<market_vars, solver_vars, eap_vars>>

\* SingleMinded.set_preferred_bundle(preferred_bundle).
set_preferred_bundle ==
    /\ ~IsNone(bidder)
    /\ Get(bidder).kind = "SingleMinded"
    /\ \E preferred_bundle \in Bundles :
           IF AlreadySet(Get(bidder).preferred_bundle)
           THEN /\ last_call' = Some(Call("set_preferred_bundle", <<preferred_bundle>>,
                                          None, Some("Exception"), Get(bidder)))
                /\ UNCHANGED bidder
           ELSE /\ bidder' = Some([Get(bidder) EXCEPT
                                      !.preferred_bundle = Some(preferred_bundle)])
                /\ last_call' = Some(Call("set_preferred_bundle", <<preferred_bundle>>,
                                          None, None, Get(bidder)))
    /\ UNCHANGED <<market_vars, solver_vars, eap_vars>>

\* SingleMinded.set_value(value, safe_check): the check is made only if
\* safe_check is true.
set_value ==
    /\ ~IsNone(bidder)
    /\ Get(bidder).kind = "SingleMinded"
    /\ \E value \in Values : \E safe_check \in BOOLEAN :
           IF safe_check /\ AlreadySet(Get(bidder).value)
           THEN /\ last_call' = Some(Call("set_value", <<value, safe_check>>, None,
                                          Some("Exception"), Get(bidder)))
                /\ UNCHANGED bidder
           ELSE /\ bidder' = Some([Get(bidder) EXCEPT !.value = Some(value)])
                /\ last_call' = Some(Call("set_value", <<value, safe_check>>, None,
                                          None, Get(bidder)))
    /\ UNCHANGED <<market_vars, solver_vars, eap_vars>>

\* SingleMinded.value_query(bundle) on the object: None has no issubset;
\* with a preferred bundle and no value set, the value returned is None.
single_minded_value_query ==
    /\ ~IsNone(bidder)
    /\ Get(bidder).kind = "SingleMinded"
    /\ \E bundle \in Bundles :
           last_call' =
               IF IsNone(Get(bidder).preferred_bundle)
               THEN Some(Call("value_query", <<bundle>>, None,
                              Some("AttributeError"), Get(bidder)))
               ELSE IF IsNone(Get(bidder).value)
               THEN Some(Call("value_query", <<bundle>>,
                              IF Get(Get(bidder).preferred_bundle) \subseteq bundle
                              THEN None ELSE Some(0),
                              None, Get(bidder)))
               ELSE Some(Call("value_query", <<bundle>>,
                              Some(SingleMindedValueQuery(
                                       SingleMinded(Get(Get(bidder).preferred_bundle),
                                                    Get(Get(bidder).value)),
                                       bundle)),
                              None, Get(bidder)))
    /\ UNCHANGED <<market_vars, solver_vars, eap_vars, bidder>>

\* A bidder object as constructed; no market is built.
InitBidder ==
    /\ self_goods = Goods
    /\ bidders = NoMap
    /\ empirical = NoMap
    /\ vars_maps = None
    /\ welfare_result = None
    /\ brute_result = None
    /\ bound_result = None
    /\ pricing_allocation = NoMap
    /\ pricing_result = NoMap
    /\ NoCall
    /\ bidder \in {Some(b) : b \in ConstructedBidders}
    /\ last_call = None

NextBidder ==
    \/ set_values
    \/ set_budget
    \/ set_preferred_bundle
    \/ set_value
    \/ single_minded_value_query

SpecBidder == InitBidder /\ [][NextBidder]_vars

(***************************************************************************)
(* Properties of the allocation solvers.                                   *)
(***************************************************************************)
\* C1: on every market of additive, additive-with-budget and single-minded
\* bidders, the optimal_welfare of welfare_max_program equals the welfare
\* returned by brute_force_welfare_max_solver.
C1_SolversAgree ==
    (~IsNone(welfare_result) /\ ~IsNone(brute_result)) =>
        Get(welfare_result).optimal_welfare = Get(brute_result).welfare

\* Both solvers have run on a market of two bidders who want the same good.
C1_Witness ==
    /\ ~IsNone(welfare_result) /\ ~IsNone(brute_result)
    /\ Cardinality(BidderIds) = 2
    /\ Get(brute_result).welfare > 0
    /\ \E b1 \in GetBaseBundles(bidders[0]), b2 \in GetBaseBundles(bidders[1]) :
           /\ b1 \cap b2 # {}
           /\ ValueQuery(0, b1) > 0 /\ ValueQuery(1, b2) > 0

\* C2: in the optimal_allocation of welfare_max_program no good is in the
\* bundles of two bidders, every bidder has at most one variable at 1, its
\* bundle is one of its base bundles, and optimal_welfare is the sum of
\* value_query over the entries of the allocation.
C2_AllocationFeasible ==
    ~IsNone(welfare_result) =>
        LET r == Get(welfare_result)
            a == r.optimal_allocation
            X == r.model.solution
        IN  /\ \A i, j \in DOMAIN a : i # j => a[i] \cap a[j] = {}
            /\ \A i \in BidderIds : Cardinality({v \in X : v[1] = i}) <= 1
            /\ \A i \in DOMAIN a : a[i] \in GetBaseBundles(bidders[i])
            /\ \A v \in X : v[1] \in DOMAIN a /\ a[v[1]] = v[2]
            /\ r.optimal_welfare = AllocationWelfare(a)

\* welfare_max_program has allocated non-empty bundles to two bidders.
C2_Witness ==
    /\ ~IsNone(welfare_result)
    /\ LET a == Get(welfare_result).optimal_allocation
       IN  /\ Cardinality(DOMAIN a) = 2
           /\ \A i \in DOMAIN a : a[i] # {}

(***************************************************************************)
(* Properties of elicitation with pruning.                                 *)
(***************************************************************************)
\* The allocations of base bundles: at most one bundle per bidder, no good
\* in two bundles.
FeasibleAllocations ==
    {X \in SUBSET AllBasePairs :
        \A v, w \in X : v # w => (v[1] # w[1] /\ v[2] \cap w[2] = {})}

TrueWelfare(X) == SumOver([p \in X |-> TrueValue(p)], X)

EstimatedWelfare(X) == SumOver([p \in X |-> ValueQuery(p[1], p[2])], X)

\* The pairs that belong to some welfare-maximizing allocation under the
\* true values.
TrueOptimalPairs ==
    UNION {X \in FeasibleAllocations :
              \A Y \in FeasibleAllocations : TrueWelfare(Y) <= TrueWelfare(X)}

\* The optimal welfare under the current estimates when the pair's bidder
\* receives exactly the pair's bundle.
ExactForcedOptimum(pair) ==
    MaxOf({EstimatedWelfare(X) : X \in {Y \in FeasibleAllocations : pair \in Y}})

Terminal == pc \in {"returned", "returned_none", "raised"}

ValidArguments ==
    Len(sampling_schedule) = Len(delta_schedule) /\ target_epsilon > 0

Pruned == AllBasePairs \ active_consumer_bundle_pair

C4_ActiveSetShrinks ==
    [][/\ active_consumer_bundle_pair' \subseteq active_consumer_bundle_pair
       /\ active_consumer_bundle_pair' \subseteq AllBasePairs]_vars

\* A round has sampled after an earlier round removed a pair.
C4_Witness ==
    /\ Pruned # {}
    /\ active_consumer_bundle_pair # {}
    /\ elicit_calls > t
    /\ t >= 1

\* C5: for equal-length schedules elicit_with_pruning returns a result
\* record with total_num_iterations <= len(sampling_schedule), and samples
\* in no more rounds than the schedule has entries.
C5_ReturnsWithinSchedule ==
    /\ elicit_calls <= Len(sampling_schedule)
    /\ (Terminal /\ ValidArguments) =>
          /\ pc = "returned"
          /\ Get(result.total_num_iterations) <= Len(sampling_schedule)

\* C6: a run whose active set is empty at the start of a round returns a
\* result record, with total_num_iterations <= len(sampling_schedule).
C6_EmptyActiveSetReturns ==
    (Terminal /\ ValidArguments /\ Len(sampling_schedule) > 0
        /\ active_consumer_bundle_pair = {}) =>
          /\ pc = "returned"
          /\ Get(result.total_num_iterations) <= Len(sampling_schedule)

\* C7: every pair in a round's prune set passes the exact test: its exact
\* forced optimum plus 2 * epsilon * |bidders| is below opt_welfare.
C7_PrunedPassExactTest ==
    (pc = "iterate" /\ t > 0) =>
        \A pair \in result.rounds[t - 1].prune_set :
            ExactForcedOptimum(pair) + 2 * Get(hat_epsilon) * Cardinality(BidderIds)
                < Get(welfare_result).optimal_welfare

\* C8: welfare_upper_bound(bidder, bundle) is never below the optimal welfare
\* with the bidder receiving exactly the bundle.
C8_UpperBoundIsUpper ==
    pc = "prune" =>
        \A pair \in AllBasePairs :
            WelfareUpperBound(pair[1], pair[2]) >= ExactForcedOptimum(pair)

\* C29: when a round of elicit_with_pruning goes on to the welfare-max solve
\* and the upper bounds, every base bundle of every bidder has an empirical
\* average, the pairs pruned in earlier rounds included; the assert of
\* value_query never fails, so a run raises AssertionError only from the
\* assert on its arguments.
C29_ValueQueryDefinedInRun ==
    /\ pc = "prune" =>
          \A i \in BidderIds : \A bundle \in GetBaseBundles(bidders[i]) :
              ~IsNone(empirical[i][bundle].avg)
    /\ error = Some("AssertionError") => ~ScheduleAssert

\* A second round about to solve: a pair pruned in the first round is no
\* longer sampled and still has its average.
C29_Witness ==
    /\ pc = "prune"
    /\ t = 1
    /\ \E i \in BidderIds : \E bundle \in GetBaseBundles(bidders[i]) :
          /\ <<i, bundle>> \notin active_consumer_bundle_pair
          /\ ~IsNone(empirical[i][bundle].avg)
          /\ empirical[i][bundle].n = sampling_schedule[1]
          /\ sampling_schedule[2] # sampling_schedule[1]

\* C28: at the end of a non-terminal round, no pair of the round's estimated
\* welfare-maximizing allocation is in the round's prune set.
C28_OptimalPairsNotPruned ==
    (pc = "iterate" /\ t > 0) =>
        \A i \in DOMAIN Get(welfare_result).optimal_allocation :
            <<i, Get(welfare_result).optimal_allocation[i]>>
                \notin result.rounds[t - 1].prune_set

\* The same, for the rounds in which no empirical average is negative.
C28_WithNonNegativeAverages ==
    (pc = "iterate" /\ t > 0
        /\ \A pair \in AllBasePairs : ValueQuery(pair[1], pair[2]) >= 0)
    => \A i \in DOMAIN Get(welfare_result).optimal_allocation :
            <<i, Get(welfare_result).optimal_allocation[i]>>
                \notin result.rounds[t - 1].prune_set

(***************************************************************************)
(* Properties of pricing.                                                  *)
(***************************************************************************)
\* Prices are looked for in steps of 1 / PriceDenominator, up to MaxPrice.
PriceDenominator == 1
MaxPrice == 4
PriceGrid == 0 .. (MaxPrice * PriceDenominator)

\* The price of a bundle under the prices p of a shape, in 1 / PriceDenominator.
BundlePrice(p, bundle) ==
    SumOver([v \in {w \in DOMAIN p : w \subseteq bundle} |-> p[v]],
            {w \in DOMAIN p : w \subseteq bundle})

Revenue(p, allocation) ==
    SumOver([i \in DOMAIN allocation |-> BundlePrice(p, allocation[i])],
            DOMAIN allocation)

\* The utility of a bidder for what the allocation gives it: value 0 and
\* price 0 if it is not in the allocation.
AllocatedUtility(p, allocation, i) ==
    IF i \in DOMAIN allocation
    THEN PriceDenominator * ValueQuery(i, allocation[i]) - BundlePrice(p, allocation[i])
    ELSE 0

\* (i) no bidder prefers another bundle and (ii) no allocation of
\* enumerate_all_allocations has more revenue.
IsEquilibriumPricing(p, allocation, all) ==
    /\ \A i \in BidderIds, bundle \in Bundles :
          PriceDenominator * ValueQuery(i, bundle) - BundlePrice(p, bundle)
              <= AllocatedUtility(p, allocation, i)
    /\ \A other \in all : Revenue(p, allocation) >= Revenue(p, other)

PricesExist(allocation, quadratic) ==
    \E all \in {Range(EnumerateAllAllocations)} :
        \E p \in [PriceVars(quadratic) -> PriceGrid] :
            IsEquilibriumPricing(p, allocation, all)

\* C9: pricing returns 'Optimal' exactly when non-negative prices of the
\* requested shape exist under which no bidder prefers another bundle and
\* the allocation's revenue is at least that of every enumerated
\* allocation; otherwise it returns 'Infeasible'.
C9_OptimalIffPricesExist ==
    \A quadratic \in DOMAIN pricing_result :
        /\ pricing_result[quadratic].status \in {"Optimal", "Infeasible"}
        /\ pricing_result[quadratic].status = "Optimal"
               <=> PricesExist(pricing_allocation, quadratic)

\* pricing has answered 'Infeasible' for an allocation that gives every
\* bidder a bundle, in a market of two bidders.
C9_Witness ==
    /\ Cardinality(BidderIds) = 2
    /\ DOMAIN pricing_allocation = BidderIds
    /\ \E quadratic \in DOMAIN pricing_result :
          pricing_result[quadratic].status = "Infeasible"

\* C10: if linear pricing of an allocation is 'Optimal' then quadratic
\* pricing of the same allocation is 'Optimal'.
C10_LinearImpliesQuadratic ==
    DOMAIN pricing_result = BOOLEAN =>
        (pricing_result[FALSE].status = "Optimal"
            => pricing_result[TRUE].status = "Optimal")

\* Both shapes have priced an allocation that gives goods to both bidders,
\* and the linear pricing is 'Optimal'.
C10_Witness ==
    /\ DOMAIN pricing_result = BOOLEAN
    /\ pricing_result[FALSE].status = "Optimal"
    /\ Cardinality(BidderIds) = 2
    /\ \A i \in BidderIds :
          i \in DOMAIN pricing_allocation /\ pricing_allocation[i] # {}

\* The constraints that the solutions of cs satisfy on the variables other
\* than those eliminated, by Fourier-Motzkin elimination.
RECURSIVE Eliminate(_, _)
Eliminate(cs, variables) ==
    IF variables = {} THEN Reduce(cs)
    ELSE LET v == CHOOSE w \in variables : TRUE
         IN  Eliminate(Reduce({c \in cs : c.coef[v] = 0}
                              \cup {Combine(p, n, v) : p \in {c \in cs : c.coef[v] > 0},
                                                      n \in {c \in cs : c.coef[v] < 0}}),
                       variables \ {v})

\* Every solution of the linear program has price variable v equal to 0:
\* with the other variables eliminated, a constraint  a * v <= b  with a > 0
\* and b <= 0 remains (prices have lower bound 0).
ForcedToZero(model, v) ==
    \E c \in Eliminate(Reduce(model.constraints), model.variables \ {v}) :
        c.coef[v] > 0 /\ c.rhs <= 0

\* The goods that are in no bundle of the allocation.
UnallocatedGoods(allocation) ==
    self_goods \ UNION {allocation[i] : i \in DOMAIN allocation}

\* C24: whenever linear pricing returns 'Optimal', every good that is in no
\* allocated bundle has price 0 in the returned prices, that is, in every
\* solution of the pricing problem.
C24_UnallocatedGoodsPricedZero ==
    (FALSE \in DOMAIN pricing_result /\ pricing_result[FALSE].status = "Optimal")
    => \A g \in UnallocatedGoods(pricing_allocation) :
           ForcedToZero(PricingModel(pricing_allocation, FALSE), {g})

\* C24 for the markets that have a bidder.
C24_WithBidders ==
    BidderIds # {} => C24_UnallocatedGoodsPricedZero

\* C12: in every market of additive bidders, pricing of an allocation that
\* welfare_max_program returns reports 'Optimal', with linear prices and
\* with quadratic prices.
C12_AdditivePricingOptimal ==
    (/\ \A i \in BidderIds : bidders[i].kind = "Additive"
     /\ pricing_allocation \in WelfareMaxAllocations)
    => \A quadratic \in DOMAIN pricing_result :
           pricing_result[quadratic].status = "Optimal"

\* Two additive bidders that value the goods differently; the welfare-max
\* allocation has been priced in both shapes.
C12_Witness ==
    /\ BidderIds = {0, 1}
    /\ \A i \in BidderIds : bidders[i].kind = "Additive"
    /\ bidders[0].values # bidders[1].values
    /\ pricing_allocation \in WelfareMaxAllocations
    /\ DOMAIN pricing_result = BOOLEAN

\* C15: a call of elicit_with_pruning with schedules of different lengths
\* fails before any work starts: it raises at the assert, no pair has been
\* sampled, no empirical record has changed and the active set is the one
\* the market was constructed with.
C15_MismatchedSchedulesFailFirst ==
    (Len(sampling_schedule) # Len(delta_schedule) /\ pc # "call")
    => /\ pc = "raised"
       /\ error = Some("AssertionError")
       /\ elicit_calls = 0
       /\ empirical = InitialEmpirical(bidders)
       /\ active_consumer_bundle_pair = AllBasePairs
       /\ result.rounds = NoMap

\* The call was made with a valid target epsilon, a longer sampling schedule
\* than delta schedule and pairs to sample, and has ended.
C15_Witness ==
    /\ Len(sampling_schedule) > Len(delta_schedule)
    /\ Len(delta_schedule) > 0
    /\ target_epsilon > 0
    /\ AllBasePairs # {}
    /\ pc = "raised"

\* The terminating conditions as the claim states them, for round t.
StopCondition ==
    \/ Get(hat_epsilon) <= target_epsilon
    \/ active_consumer_bundle_pair = {}
    \/ t = Len(sampling_schedule) - 1

\* The active set at the start of round t: the one of the construction, or
\* the one recorded by the round before.
ActiveAtRoundStart ==
    IF t = 0 THEN AllBasePairs ELSE result.rounds[t - 1].active_consumer_bundle_pair

\* C20, the round goes on to prune only if no terminating condition holds.
C20_PruneOnlyIfNoStop == pc = "prune" => ~StopCondition

\* C20, the returning round: a terminating condition holds, nothing was
\* solved or pruned in the round, the active set is the one of the start of
\* the round, total_num_iterations = t + 1 and actual_eps is the epsilon of
\* the round.
C20_ReturningRound ==
    pc = "returned"
    => /\ StopCondition
       /\ t \notin DOMAIN result.rounds
       /\ active_consumer_bundle_pair = ActiveAtRoundStart
       /\ result.total_num_iterations = Some(t + 1)
       /\ result.actual_eps = hat_epsilon
       /\ elicit_calls = t + 1

\* C20, a round whose active set is empty returns: it does not end in an
\* exception.
C20_EmptyActiveSetRoundReturns ==
    (ValidArguments /\ active_consumer_bundle_pair = {} /\ Terminal
        /\ Len(sampling_schedule) > 0)
    => pc = "returned"

\* C20: in each round the termination test runs after sampling and before
\* pruning; the run returns in round t if and only if the epsilon of the
\* round is at most target_epsilon, or the active set is empty, or t is the
\* last index of the schedule; the returning round solves and prunes
\* nothing, leaves the active set unchanged and reports
\* total_num_iterations = t + 1 and actual_eps = the epsilon of the round.
C20_TerminationTest ==
    /\ C20_PruneOnlyIfNoStop
    /\ C20_ReturningRound
    /\ C20_EmptyActiveSetRoundReturns

\* C22: a call of elicit(n, delta, c) overwrites the record of every active
\* pair with (new average, epsilon, n), with the one epsilon that it
\* returns, computed from the size of the active set at the call, and leaves
\* the record of every pair that is not active unchanged.
C22_ElicitFrame ==
    [][elicit_calls' = elicit_calls + 1
       => /\ hat_epsilon' = Some(HoeffdingEpsilon(Cardinality(active_consumer_bundle_pair),
                                                  delta_schedule[t + 1],
                                                  sampling_schedule[t + 1], NoiseC))
          /\ \A pair \in AllBasePairs :
                IF pair \in active_consumer_bundle_pair
                THEN /\ empirical'[pair[1]][pair[2]].eps = hat_epsilon'
                     /\ empirical'[pair[1]][pair[2]].n = sampling_schedule[t + 1]
                     /\ \E noise \in NoiseAverages :
                            empirical'[pair[1]][pair[2]].avg = Some(TrueValue(pair) + noise)
                ELSE empirical'[pair[1]][pair[2]] = empirical[pair[1]][pair[2]]]_vars

\* After the second call of elicit, a pruned pair keeps the record of the
\* first call next to an active pair with the record of the second.
C22_Witness ==
    /\ elicit_calls = 2
    /\ \E p \in Pruned : \E q \in active_consumer_bundle_pair :
           /\ empirical[p[1]][p[2]].n = sampling_schedule[1]
           /\ empirical[q[1]][q[2]].n = sampling_schedule[2]
           /\ sampling_schedule[1] # sampling_schedule[2]

(***************************************************************************)
(* Properties of prune.                                                    *)
(***************************************************************************)
PruneCalled == ~IsNone(last_call) /\ Get(last_call).op = "prune"

\* The bound the claims speak of: the greedy bound of welfare_upper_bound,
\* or the optimum with the pair forced.
UpperBoundOf(pair, ilp) ==
    IF ilp THEN ExactForcedOptimum(pair) ELSE WelfareUpperBound(pair[1], pair[2])

\* C21: prune puts a candidate in the prune set if and only if its upper
\* bound plus 2 * epsilon * (number of bidders of the market) is strictly
\* below the optimal_welfare of welfare_program; every other candidate is in
\* the un-pruned list, once.
C21_PruneIffBelowOptimum ==
    PruneCalled
    => \E call \in {Get(last_call)} :
       \E candidates \in {Range(call.args[1])} :
       \E out \in {Get(call.returned)} :
           /\ out.prune_set =
                  {pair \in candidates :
                      UpperBoundOf(pair, call.args[3])
                      + 2 * call.args[2] * Cardinality(BidderIds)
                          < call.before.optimal_welfare}
           /\ {<<u[1], u[2]>> : u \in Range(out.un_pruned)} = candidates \ out.prune_set
           /\ Len(out.un_pruned) = Cardinality(candidates \ out.prune_set)

\* prune has pruned one candidate and kept another, in a market in which
\* one of two bidders has no base bundle.
C21_Witness ==
    /\ PruneCalled
    /\ Get(Get(last_call).returned).prune_set # {}
    /\ Len(Get(Get(last_call).returned).un_pruned) > 0
    /\ Cardinality(BidderIds) > Cardinality({p[1] : p \in AllBasePairs})

\* C30: when the exact pass of prune over a non-empty list of candidates
\* ends, the shared model holds one constraint named 'initial_assignment', which
\* forces the last candidate tested and nothing else, next to the goods and
\* bidders constraints it had; its solution is an optimum with that pair at
\* 1; every candidate was tested with exactly itself forced, against the
\* optimal_welfare the welfare program had before the pass, which the pass
\* leaves as it was.
C30_OneForcingConstraint ==
    [][(/\ last_call' # last_call
        /\ Get(last_call').op = "prune"
        /\ Get(last_call').args[3]
        /\ Len(Get(last_call').args[1]) > 0)
       => \E call \in {Get(last_call')} :
          \E candidates \in {call.args[1]} :
          \E last \in {call.args[1][Len(call.args[1])]} :
          \E program \in {Get(welfare_result')} :
              /\ call.before = Get(welfare_result)
              /\ {name \in DOMAIN program.model.constraints : name[1] = "initial_assignment"}
                     = {InitialAssignment}
              /\ program.model.constraints[InitialAssignment]
                     = [vars |-> {last}, sense |-> EQ, rhs |-> 1]
              /\ \A name \in (DOMAIN program.model.constraints
                                 \cup DOMAIN call.before.model.constraints)
                                \ {InitialAssignment} :
                     /\ name \in DOMAIN program.model.constraints
                     /\ name \in DOMAIN call.before.model.constraints
                     /\ program.model.constraints[name] = call.before.model.constraints[name]
              /\ last \in program.model.solution
              /\ ObjectiveValue(program.model, program.model.solution)
                     = ExactForcedOptimum(last)
              /\ program.optimal_welfare = call.before.optimal_welfare
              /\ Get(call.returned).prune_set =
                     {pair \in Range(candidates) :
                         ExactForcedOptimum(pair)
                         + 2 * call.args[2] * Cardinality(BidderIds)
                             < call.before.optimal_welfare}
      ]_vars

\* An exact pass over two candidates on a model that came with the forcing
\* constraint of an earlier pass, for a pair other than the two.
C30_Witness ==
    /\ PruneCalled
    /\ Get(last_call).args[3]
    /\ Len(Get(last_call).args[1]) = 2
    /\ InitialAssignment \in DOMAIN Get(last_call).before.model.constraints
    /\ Get(last_call).before.model.constraints[InitialAssignment].vars
          # {Get(last_call).args[1][2]}
    /\ Get(Get(last_call).returned).prune_set # {}

C17_SampleOfUnknownBundleFails ==
    (~IsNone(last_call) /\ Get(last_call).op = "sample_value_query")
    => \E call \in {Get(last_call)} :
       \E i \in {call.args[1]} : \E bundle \in {call.args[2]} :
           bundle \notin DOMAIN bidders[i].map_base_bundles_to_values
           => /\ call.raised = Some("AssertionError")
              /\ empirical[i] = call.before

\* A bidder with a sampled bundle was asked to sample a bundle it has no
\* base value for.
C17_Witness ==
    /\ ~IsNone(last_call)
    /\ Get(last_call).op = "sample_value_query"
    /\ Get(last_call).args[2] \notin DOMAIN bidders[0].map_base_bundles_to_values
    /\ \E bundle \in DOMAIN empirical[0] : empirical[0][bundle] # NoStatistics

(***************************************************************************)
(* Properties of a bidder object.                                          *)
(***************************************************************************)
\* The attribute that a setter sets.
SetterAttribute(op, b) ==
    CASE op = "set_values" -> b.values
      [] op = "set_budget" -> b.budget
      [] op = "set_preferred_bundle" -> b.preferred_bundle
      [] op = "set_value" -> b.value

Setters == {"set_values", "set_budget", "set_preferred_bundle", "set_value"}

\* C18 as stated: every call of a setter on an attribute that is already
\* set raises and leaves the attribute unchanged.
C18_SetOnceAlways ==
    (~IsNone(last_call) /\ Get(last_call).op \in Setters)
    => \E call \in {Get(last_call)} :
           ~IsNone(SetterAttribute(call.op, call.before))
           => /\ call.raised = Some("Exception")
              /\ SetterAttribute(call.op, Get(bidder)) = SetterAttribute(call.op, call.before)

\* C18: every call of a setter with its check on (set_values, set_budget,
\* set_preferred_bundle, and set_value with safe_check true) on an attribute
\* that is already set raises and leaves the object unchanged.
C18_SetOnceWithCheck ==
    (~IsNone(last_call) /\ Get(last_call).op \in Setters)
    => \E call \in {Get(last_call)} :
           (/\ ~IsNone(SetterAttribute(call.op, call.before))
            /\ call.op = "set_value" => call.args[2])
           => /\ call.raised = Some("Exception")
              /\ Get(bidder) = call.before

\* A setter was called with its check on, on an attribute set by an earlier
\* call of the setter.
C18_Witness ==
    /\ ~IsNone(last_call)
    /\ Get(last_call).op \in Setters
    /\ ~IsNone(SetterAttribute(Get(last_call).op, Get(last_call).before))
    /\ Get(last_call).raised = Some("Exception")
    /\ Get(bidder) \notin ConstructedBidders

\* C19: for a single-minded bidder with preferred bundle P and value v,
\* value_query(B) returns v for every bundle B that contains P and 0 for
\* every other bundle B, the empty bundle included.
C19_SingleMindedValueLaw ==
    (/\ ~IsNone(last_call)
     /\ Get(last_call).op = "value_query"
     /\ ~IsNone(Get(bidder).preferred_bundle)
     /\ ~IsNone(Get(bidder).value))
    => \E call \in {Get(last_call)} :
       \E P \in {Get(Get(bidder).preferred_bundle)} : \E v \in {Get(Get(bidder).value)} :
           /\ call.raised = None
           /\ P \subseteq call.args[1] => call.returned = Some(v)
           /\ ~(P \subseteq call.args[1]) => call.returned = Some(0)

\* The bidder was asked for a bundle strictly larger than its preferred
\* bundle.
C19_Witness ==
    /\ ~IsNone(last_call)
    /\ Get(last_call).op = "value_query"
    /\ ~IsNone(Get(bidder).preferred_bundle)
    /\ ~IsNone(Get(bidder).value)
    /\ Get(Get(bidder).preferred_bundle) \subseteq Get(last_call).args[1]
    /\ Get(Get(bidder).preferred_bundle) # Get(last_call).args[1]
    /\ Get(last_call).returned = Get(bidder).value

(***************************************************************************)
(* Properties of the brute-force solver and of the enumeration.            *)
(***************************************************************************)
\* Every assignment of pairwise-disjoint bundles of the goods to all bidders.
DisjointAssignments ==
    {a \in [BidderIds -> SUBSET self_goods] :
        \A i, j \in BidderIds : i # j => a[i] \cap a[j] = {}}

\* C23, the welfare: the maximum total value over all disjoint assignments.
C23_BruteForceMaximum ==
    ~IsNone(brute_result)
    => /\ \A a \in DisjointAssignments :
              AllocationWelfare(a) <= Get(brute_result).welfare
       /\ \E a \in DisjointAssignments :
              AllocationWelfare(a) = Get(brute_result).welfare

\* C23, the allocation: a disjoint assignment whose total value is the
\* returned welfare.
C23_BruteForceAllocationAttains ==
    ~IsNone(brute_result)
    => /\ ~IsNone(Get(brute_result).allocation)
       /\ Get(Get(brute_result).allocation) \in DisjointAssignments
       /\ AllocationWelfare(Get(Get(brute_result).allocation)) = Get(brute_result).welfare

\* C23: brute_force_welfare_max_solver returns the maximum total value over
\* all assignments of pairwise-disjoint bundles to the bidders, and an
\* allocation whose sum of value_query equals the returned welfare, for
\* every valuation, non-monotone and negative-valued ones included.
C23_BruteForceOptimal ==
    /\ C23_BruteForceMaximum
    /\ C23_BruteForceAllocationAttains

\* C27: a run of elicit_with_pruning that returns total_num_iterations = k
\* holds a round record for every round 0 .. k-2 and for no other; the record
\* of round t is written once, at the end of round t, with a prune_set that
\* is a subset of the active set at the start of the round and an active set
\* equal to that set minus prune_set, and no later step alters it.
C27_RoundRecords ==
    /\ [](pc = "returned" =>
            DOMAIN result.rounds = 0 .. (Get(result.total_num_iterations) - 2))
    /\ [][(\A r \in DOMAIN result.rounds :
                /\ r \in DOMAIN result'.rounds
                /\ result'.rounds[r] = result.rounds[r])
           /\ (\A r \in DOMAIN result'.rounds \ DOMAIN result.rounds :
                /\ r = t
                /\ t' = t + 1
                /\ result'.rounds[r].prune_set \subseteq active_consumer_bundle_pair
                /\ result'.rounds[r].active_consumer_bundle_pair
                      = active_consumer_bundle_pair \ result'.rounds[r].prune_set
                /\ active_consumer_bundle_pair'
                      = result'.rounds[r].active_consumer_bundle_pair)
          ]_vars

\* A run that returned after three rounds, with nothing pruned in round 0
\* and a pair pruned in round 1 that leaves another pair active.
C27_Witness ==
    /\ pc = "returned"
    /\ result.total_num_iterations = Some(3)
    /\ DOMAIN result.rounds = {0, 1}
    /\ result.rounds[0].prune_set = {}
    /\ result.rounds[1].prune_set # {}
    /\ result.rounds[1].active_consumer_bundle_pair # {}

\* C26: the maps of a market are built by the first call of
\* generate_vars_maps or welfare_max_program from the bidders' base bundles
\* at that call, and no later step alters them, even if the base bundles
\* changed; each welfare_max_program call that returns reads the objective
\* coefficients of the stored variables from value_query at that call.
C26_MapsBuiltOnce ==
    [][/\ (generate_vars_maps \/ welfare_max_program) =>
            vars_maps' = IF IsNone(vars_maps) THEN Some(GenerateVarsMaps) ELSE vars_maps
       /\ ~IsNone(vars_maps) => vars_maps' = vars_maps
       /\ (welfare_max_program /\ BidderBundlePairs \subseteq VarsMapsAfter.bidder_bundle_vars) =>
            /\ ~IsNone(welfare_result')
            /\ Get(welfare_result').model.variables = Get(vars_maps').bidder_bundle_vars
            /\ Get(welfare_result').model.objective =
                  [v \in Get(vars_maps').bidder_bundle_vars |-> ValueQuery(v[1], v[2])]
      ]_vars

\* The maps differ from what the bidders' base bundles would give now, and a
\* welfare_max_program call made after a bundle was discarded solved for
\* the stored variable of that bundle: it is 1 in the solution and its
\* bidder is not in the allocation.
C26_Witness ==
    /\ ~IsNone(vars_maps)
    /\ Get(vars_maps) # GenerateVarsMaps
    /\ ~IsNone(welfare_result)
    /\ \E v \in Get(welfare_result).model.solution :
           /\ v[2] \notin GetBaseBundles(bidders[v[1]])
           /\ v[1] \notin DOMAIN Get(welfare_result).optimal_allocation
           /\ Get(welfare_result).model.objective[v] = ValueQuery(v[1], v[2])

RECURSIVE Power(_, _)
Power(base, exponent) ==
    IF exponent = 0 THEN 1 ELSE base * Power(base, exponent - 1)

\* C25: enumerate_all_allocations returns every assignment of pairwise-
\* disjoint bundles of the goods to all the bidders exactly once: one entry
\* per bidder in each allocation, and (n + 1)^m allocations for n bidders
\* and m goods.
C25_EnumeratesEveryAllocationOnce ==
    (~IsNone(last_call) /\ Get(last_call).op = "enumerate_all_allocations")
    => \E all \in {Get(Get(last_call).returned)} :
           /\ \A k \in DOMAIN all : all[k] \in DisjointAssignments
           /\ Range(all) = DisjointAssignments
           /\ Cardinality(Range(all)) = Len(all)
           /\ Len(all) = Power(Cardinality(BidderIds) + 1, Cardinality(self_goods))

\* The market of the test: 3 bidders and 3 goods, with 64 allocations.
C25_Witness ==
    /\ ~IsNone(last_call)
    /\ Get(last_call).op = "enumerate_all_allocations"
    /\ Cardinality(BidderIds) = 3
    /\ Cardinality(self_goods) = 3
    /\ Len(Get(Get(last_call).returned)) = 64

(***************************************************************************)
(* Degenerate markets.                                                     *)
(***************************************************************************)
\* C14: welfare_max_program on a market with no bidders, or with no goods,
\* returns optimal_welfare 0 and an empty optimal_allocation; with no goods,
\* a bidder whose only base bundle is non-empty is allocated nothing.
C14_DegenerateMarketsYieldNothing ==
    ((BidderIds = {} \/ self_goods = {}) /\ ~IsNone(welfare_result))
    => /\ Get(welfare_result).optimal_welfare = 0
       /\ Get(welfare_result).optimal_allocation = NoMap

(***************************************************************************)
(* Properties of the markets of the tests.                                 *)
(***************************************************************************)
\* C11: in the single-minded market with preferred bundles {0,1}, {0,2},
\* {1,2}, {0,1,2}: with values 3, 3, 3, 5 the optimal welfare is 5 and the
\* linear pricing of the welfare-max allocation is 'Optimal'; with values
\* 3, 3, 3, 4 the welfare-max allocation gives {0,1,2} to bidder 3 and its
\* linear and quadratic pricing are both 'Infeasible'.
C11_SingleMindedExample ==
    /\ bidders = SingleMindedExample(<<3, 3, 3, 5>>) =>
          /\ ~IsNone(welfare_result) => Get(welfare_result).optimal_welfare = 5
          /\ FALSE \in DOMAIN pricing_result => pricing_result[FALSE].status = "Optimal"
    /\ bidders = SingleMindedExample(<<3, 3, 3, 4>>) =>
          /\ pricing_allocation = (3 :> {0, 1, 2})
          /\ \A quadratic \in DOMAIN pricing_result :
                pricing_result[quadratic].status = "Infeasible"

\* The market with values 3, 3, 3, 4 has been solved and priced in both
\* shapes.
C11_Witness ==
    /\ bidders = SingleMindedExample(<<3, 3, 3, 4>>)
    /\ ~IsNone(welfare_result)
    /\ DOMAIN pricing_result = BOOLEAN

\* C13: for the additive-with-budget bidders with values {0:1, 1:4, 2:5},
\* budget 7, and {0:3, 1:10, 2:1}, budget 5, welfare_max_program and
\* brute_force_welfare_max_solver both return welfare 11.
C13_AWBExample ==
    bidders = AWBExample(<<7, 5>>) =>
        /\ ~IsNone(welfare_result) => Get(welfare_result).optimal_welfare = 11
        /\ ~IsNone(brute_result) => Get(brute_result).welfare = 11

\* Both solvers have run on the market.
C13_Witness ==
    /\ bidders = AWBExample(<<7, 5>>)
    /\ ~IsNone(welfare_result)
    /\ ~IsNone(brute_result)

====
